---- MODULE Spec2Model ----
(***************************************************************************)
(* The actor lifecycle of src/actor/spawn.rs: one actor, from prepare()    *)
(* through run_actor_lifecycle to the returned (actor, reason) pair,       *)
(* together with the parties that share state with it: producers holding   *)
(* strong handles on the mailbox, the holder of the abort handle, callers  *)
(* of link/unlink on the actor's Links map, linked peers with bounded      *)
(* mailboxes, and callers waiting on the startup semaphore; and the ways   *)
(* the lifecycle is started: run, spawn, spawn_in_thread and spawn_link.   *)
(***************************************************************************)
EXTENDS Naturals, Sequences, FiniteSets

(* ---------------- bounds of the model ---------------- *)

\* External signals enqueued over the whole run (all producers together).
MaxSends == 2
\* Capacity of the mailbox when the actor chose a bounded one.
MailboxCap == 1
\* Peers that may be linked to the actor.
NumPeers == 2

(* ---------------- program constants ---------------- *)

\* Semaphore::MAX_PERMITS, the count handed to add_permits (32-bit target).
MAX_PERMITS == 536870911

(* ---------------- values ---------------- *)

\* Holders of a strong ActorRef: a client of the actor and a linked peer.
Producers == {"client", "peer"}
Peers == 1..NumPeers
Waiters == {"w1"}

\* ActorStopReason: the four kinds; NoReason is Option::None.
Reasons == {"Normal", "Killed", "Panicked", "LinkDied"}
NoReason == "None"
OptReason == Reasons \cup {NoReason}

\* Signal: the kinds an external producer can enqueue.  The client tells and
\* stops the actor; the peer tells it and reports its own death.
ExternalKinds == {"Message", "LinkDied", "Stop"}
KindsOf(p) == IF p = "client" THEN {"Message", "Stop"} ELSE {"Message", "LinkDied"}
\* Signal::StartupFinished, enqueued by the lifecycle itself.
StartupFinished == [type |-> "StartupFinished", from |-> "lifecycle", n |-> 0]
\* recv() == None: the closed indication; and "no signal in hand".
Closed == [type |-> "Closed", from |-> "mailbox", n |-> 0]
NoSignal == [type |-> "NoSignal", from |-> "none", n |-> 0]

\* The actor's own id, carried by the LinkDied signals it sends.
ActorId == 0

\* tokio's RuntimeFlavor, as Handle::current().runtime_flavor() reports it.
Flavors == {"CurrentThread", "MultiThread"}
\* The execution strategies of a PreparedActor; "none" before one is chosen.
Strategies == {"run", "spawn", "spawn_in_thread"}
\* What CURRENT_ACTOR_ID.try_get() yields: nothing, this actor's id, or the id
\* of the actor whose task called run().
Unbound == "unbound"
OwnId == "own"
CallerId == "caller"
\* What a linked peer is doing: receiving from its mailbox, or inside a
\* callback that awaits this actor's links.lock() to link or unlink.
PeerPcs == {"receiving", "locking"}
\* The peer spawn_link links the new actor to.
LinkRef == CHOOSE q \in Peers : TRUE

VARIABLES
    pc,                \* position of run_actor_lifecycle
    susp,              \* the task returned Pending inside the abortable section
    start_res,         \* start_res: "none" until on_start completed, then "ok"/"err"
    mailbox,           \* signals queued in the mailbox, head first
    bounded,           \* A::new_mailbox() returned a capacity-bounded mailbox
    handles,           \* producers still holding a strong ActorRef
    aborted,           \* AbortHandle::abort was called
    startup_semaphore, \* permits of the startup semaphore
    links,             \* the actor's Links map (its key set)
    links_lock,        \* the lifecycle holds links.lock()
    cur,               \* the signal whose callback is executing
    proposed,          \* the reason recv_mailbox_loop returned to the outer loop
    reason,            \* the finalized reason
    waiters,           \* callers of wait_startup
    \* ---- history, written but never read by the actions ----
    enq,               \* every signal ever enqueued, in arrival order
    dispatched,        \* every signal dequeued by recv_mailbox_loop, in order
    invoked,           \* the per-signal callbacks invoked so far
    abortPhase,        \* where the lifecycle stood when abort fired
    drained,           \* the Links map at the moment links.drain() started
    sent,              \* per peer, the LinkDied signals sent to it
    steps,             \* shutdown steps taken, in order
    on_start_runs,     \* invocations of on_start
    shutdown_res,      \* what the last on_shutdown call returned
    on_stop_log,       \* the reasons on_stop was invoked with
    results,           \* the (actor, reason) pairs returned by run
    \* ---- the way the lifecycle is started ----
    via,               \* the caller of prepare(): the user, or spawn_link
    flavor,            \* runtime_flavor() of the runtime the caller runs in
    strategy,          \* the execution strategy that started the lifecycle
    current_actor_id,  \* CURRENT_ACTOR_ID as read where the lifecycle executes
    \* ---- the linked peers, as the notification step meets them ----
    peerFull,          \* per peer: its bounded mailbox is at capacity
    peerPc,            \* per peer: receiving, or in a callback awaiting links.lock()
    \* ---- history of the outer loop ----
    vetoes             \* stop proposals on_shutdown vetoed in a row: none, once, repeatedly

vars == <<pc, susp, start_res, mailbox, bounded, handles, aborted,
          startup_semaphore, links, links_lock, cur, proposed, reason, waiters,
          enq, dispatched, invoked, abortPhase, drained, sent, steps,
          on_start_runs, shutdown_res, on_stop_log, results,
          via, flavor, strategy, current_actor_id, peerFull, peerPc, vetoes>>

\* groups for UNCHANGED
mboxVars == <<mailbox, enq>>
linkVars == <<links, links_lock, drained, sent>>
abortVars == <<aborted, abortPhase>>
hookVars == <<on_start_runs, shutdown_res, on_stop_log, results>>
loopVars == <<cur, proposed, dispatched, invoked>>
ctxVars == <<via, flavor, strategy, current_actor_id>>
peerVars == <<peerFull, peerPc>>

(* ---------------- positions ---------------- *)

\* The abortable section: Abortable::new(abortable_actor_loop(..)).await
RunningPcs == {"recv", "callback", "on_shutdown"}
\* Before the abortable section is first polled.
PrePcs == {"prepared", "on_start", "signal_startup", "enter_loop"}
\* The startup-failure branch.
FailPcs == {"fail_on_shutdown", "fail_state_shutdown", "fail_on_stop"}
\* After the abortable section of a started actor.
PostPcs == {"state_shutdown", "links_lock", "notify", "on_stop"}
EndPcs == {"done", "unwound"}

\* mailbox_rx is alive: it is moved into abortable_actor_loop and dropped with
\* it when the Abortable completes; in the failure branch it lives until return.
RxAlive == pc \in PrePcs \cup RunningPcs \cup FailPcs

HasCapacity == (~bounded) \/ Len(mailbox) < MailboxCap

ExternalCount == Cardinality({i \in DOMAIN enq : enq[i] # StartupFinished})

SentBy(p) == Cardinality({i \in DOMAIN enq : enq[i].from = p})

\* A variant of AbortPending: cancellation raced only against mailbox_rx.recv()
\* instead of wrapping the whole loop.
AbortPending_OnlyAtRecv == susp /\ aborted /\ pc = "recv"

\* Abortable::poll: a suspended task whose handle was aborted yields Err(Aborted)
\* at its next poll, before the inner future is polled again.
AbortPending == susp /\ aborted

(* ---------------- initial state: PreparedActor::new ---------------- *)

\* PreparedActor::new, whoever called prepare().
InitPrepared ==
    /\ pc = "prepared"
    /\ susp = FALSE
    /\ start_res = "none"
    /\ mailbox = <<>>
    /\ bounded \in BOOLEAN
    /\ handles = Producers
    /\ aborted = FALSE
    /\ startup_semaphore = 0
    /\ links_lock = FALSE
    /\ cur = NoSignal
    /\ proposed = NoReason
    /\ reason = NoReason
    /\ waiters = [w \in Waiters |-> "idle"]
    /\ enq = <<>>
    /\ dispatched = <<>>
    /\ invoked = {}
    /\ abortPhase = "none"
    /\ drained = {}
    /\ sent = [q \in Peers |-> <<>>]
    /\ steps = <<>>
    /\ on_start_runs = 0
    /\ shutdown_res = NoReason
    /\ on_stop_log = <<>>
    /\ results = <<>>
    /\ strategy = "none"
    /\ peerFull = [q \in Peers |-> FALSE]
    /\ peerPc = [q \in Peers |-> "receiving"]
    /\ vetoes = "none"

\* The user called prepare() from a plain task of a multi-threaded runtime and
\* linked the peers while the actor was still prepared.
Init ==
    /\ InitPrepared
    /\ via = "prepare"
    /\ links = Peers
    /\ flavor = "MultiThread"
    /\ current_actor_id = Unbound

\* Every caller: the user or spawn_link (whose prepared actor has no link
\* yet), in either runtime flavor, from a plain task or from inside the task
\* of another actor.
InitStrategies ==
    /\ InitPrepared
    /\ via \in {"prepare", "spawn_link"}
    /\ links = IF via = "prepare" THEN Peers ELSE {}
    /\ flavor \in Flavors
    /\ current_actor_id \in {Unbound, CallerId}

\* Where the lifecycle stands, as seen by the holder of the abort handle.
PhaseNow ==
    IF pc \in PrePcs THEN "pre"
    ELSE IF pc \in RunningPcs THEN (IF susp THEN "susp" ELSE "busy")
    ELSE "post"

\* recv_mailbox_loop's match: the callback a dequeued signal is dispatched to.
CallbackOf(sig) ==
    CASE sig.type = "StartupFinished" -> "handle_startup_finished"
      [] sig.type = "Message" -> "handle_message"
      [] sig.type = "LinkDied" -> "handle_link_died"
      [] OTHER -> "handle_stop"

(* ---------------- the environment ---------------- *)

\* A producer enqueues a signal through its strong handle.  A bounded mailbox
\* that is full suspends the sender; a dropped receiver fails the send.
Send(p, k) ==
    /\ p \in handles
    /\ RxAlive
    /\ HasCapacity
    /\ ExternalCount < MaxSends
    /\ LET sig == [type |-> k, from |-> p, n |-> SentBy(p) + 1] IN
         /\ mailbox' = Append(mailbox, sig)
         /\ enq' = Append(enq, sig)
    /\ UNCHANGED <<pc, susp, start_res, bounded, handles, startup_semaphore,
                   reason, waiters, steps>>
    /\ UNCHANGED <<linkVars, abortVars, hookVars, loopVars>>
    /\ UNCHANGED <<ctxVars, peerVars, vetoes>>

\* A producer drops its strong handle.
DropHandle(p) ==
    /\ p \in handles
    /\ handles' = handles \ {p}
    /\ UNCHANGED <<pc, susp, start_res, bounded, startup_semaphore,
                   reason, waiters, steps>>
    /\ UNCHANGED <<mboxVars, linkVars, abortVars, hookVars, loopVars>>
    /\ UNCHANGED <<ctxVars, peerVars, vetoes>>

\* AbortHandle::abort: sets the shared flag; fire-once, idempotent.
Abort ==
    /\ ~aborted
    /\ aborted' = TRUE
    /\ abortPhase' = PhaseNow
    /\ UNCHANGED <<pc, susp, start_res, bounded, handles, startup_semaphore,
                   reason, waiters, steps>>
    /\ UNCHANGED <<mboxVars, linkVars, hookVars, loopVars>>
    /\ UNCHANGED <<ctxVars, peerVars, vetoes>>

\* link / unlink on the actor's Links map, under its lock.
Link(q) ==
    /\ ~links_lock
    /\ q \notin links
    /\ links' = links \cup {q}
    /\ UNCHANGED <<pc, susp, start_res, bounded, handles, startup_semaphore,
                   reason, waiters, steps, links_lock, drained, sent>>
    /\ UNCHANGED <<mboxVars, abortVars, hookVars, loopVars>>
    /\ UNCHANGED <<ctxVars, peerVars, vetoes>>

Unlink(q) ==
    /\ ~links_lock
    /\ q \in links
    /\ links' = links \ {q}
    /\ UNCHANGED <<pc, susp, start_res, bounded, handles, startup_semaphore,
                   reason, waiters, steps, links_lock, drained, sent>>
    /\ UNCHANGED <<mboxVars, abortVars, hookVars, loopVars>>
    /\ UNCHANGED <<ctxVars, peerVars, vetoes>>

\* Other senders fill the bounded mailbox of a linked peer.
PeerMailboxFills(q) ==
    /\ ~peerFull[q]
    /\ peerFull' = [peerFull EXCEPT ![q] = TRUE]
    /\ UNCHANGED <<pc, susp, start_res, bounded, handles, startup_semaphore,
                   reason, waiters, steps, peerPc>>
    /\ UNCHANGED <<mboxVars, linkVars, abortVars, hookVars, loopVars>>
    /\ UNCHANGED <<ctxVars, vetoes>>

\* A peer that is receiving takes a signal out of its full mailbox.
PeerReceives(q) ==
    /\ peerPc[q] = "receiving"
    /\ peerFull[q]
    /\ peerFull' = [peerFull EXCEPT ![q] = FALSE]
    /\ UNCHANGED <<pc, susp, start_res, bounded, handles, startup_semaphore,
                   reason, waiters, steps, peerPc>>
    /\ UNCHANGED <<mboxVars, linkVars, abortVars, hookVars, loopVars>>
    /\ UNCHANGED <<ctxVars, vetoes>>

\* A callback of the peer calls link or unlink on this actor and awaits the
\* lock of its Links map; the peer receives nothing until the call returns.
PeerCallsLink(q) ==
    /\ peerPc[q] = "receiving"
    /\ peerPc' = [peerPc EXCEPT ![q] = "locking"]
    /\ UNCHANGED <<pc, susp, start_res, bounded, handles, startup_semaphore,
                   reason, waiters, steps, peerFull>>
    /\ UNCHANGED <<mboxVars, linkVars, abortVars, hookVars, loopVars>>
    /\ UNCHANGED <<ctxVars, vetoes>>

\* The peer gets the lock, inserts or removes its own entry, and its callback
\* returns.
PeerLinkReturns(q) ==
    /\ peerPc[q] = "locking"
    /\ ~links_lock
    /\ links' = IF q \in links THEN links \ {q} ELSE links \cup {q}
    /\ peerPc' = [peerPc EXCEPT ![q] = "receiving"]
    /\ UNCHANGED <<pc, susp, start_res, bounded, handles, startup_semaphore,
                   reason, waiters, steps, links_lock, drained, sent, peerFull>>
    /\ UNCHANGED <<mboxVars, abortVars, hookVars, loopVars>>
    /\ UNCHANGED <<ctxVars, vetoes>>

\* A caller starts waiting on the startup semaphore.
WaitStartup(w) ==
    /\ waiters[w] = "idle"
    /\ waiters' = [waiters EXCEPT ![w] = "waiting"]
    /\ UNCHANGED <<pc, susp, start_res, bounded, handles, startup_semaphore,
                   reason, steps>>
    /\ UNCHANGED <<mboxVars, linkVars, abortVars, hookVars, loopVars>>
    /\ UNCHANGED <<ctxVars, peerVars, vetoes>>

\* The wait returns once a permit is available (the permit is handed back).
WaitReturn(w) ==
    /\ waiters[w] = "waiting"
    /\ startup_semaphore > 0
    /\ waiters' = [waiters EXCEPT ![w] = "proceeded"]
    /\ UNCHANGED <<pc, susp, start_res, bounded, handles, startup_semaphore,
                   reason, steps>>
    /\ UNCHANGED <<mboxVars, linkVars, abortVars, hookVars, loopVars>>
    /\ UNCHANGED <<ctxVars, peerVars, vetoes>>

(* ---------------- the lifecycle: run_actor_lifecycle ---------------- *)

\* run_actor_lifecycle is entered under execution strategy s, with id as the
\* value of CURRENT_ACTOR_ID where it executes; on_start is invoked.
StartLifecycle(s, id) ==
    /\ pc' = "on_start"
    /\ on_start_runs' = on_start_runs + 1
    /\ strategy' = s
    /\ current_actor_id' = id
    /\ UNCHANGED <<susp, start_res, bounded, handles, startup_semaphore,
                   reason, waiters, steps, shutdown_res, on_stop_log, results>>
    /\ UNCHANGED <<mboxVars, linkVars, abortVars, loopVars>>
    /\ UNCHANGED <<via, flavor, peerVars, vetoes>>

\* PreparedActor::run, awaited by the user: the lifecycle executes in the
\* caller's task, with the caller's CURRENT_ACTOR_ID.
Run ==
    /\ pc = "prepared"
    /\ via = "prepare"
    /\ StartLifecycle("run", current_actor_id)

\* PreparedActor::spawn, called by the user:
\* tokio::spawn(CURRENT_ACTOR_ID.scope(self.actor_ref.id(), self.run())).
Spawn ==
    /\ pc = "prepared"
    /\ via = "prepare"
    /\ StartLifecycle("spawn", OwnId)

\* A variant of SpawnInThread: the runtime flavor is not looked at.
SpawnInThread_NoFlavorCheck ==
    /\ pc = "prepared"
    /\ via = "prepare"
    /\ StartLifecycle("spawn_in_thread", OwnId)

\* PreparedActor::spawn_in_thread, called by the user: in a CurrentThread
\* runtime the caller panics before std::thread::Builder::spawn, and the
\* PreparedActor is dropped by the unwinding; otherwise a new thread runs
\* handle.block_on(CURRENT_ACTOR_ID.scope(actor_ref.id(), self.run())).
SpawnInThread ==
    /\ pc = "prepared"
    /\ via = "prepare"
    /\ IF flavor = "CurrentThread"
         THEN /\ pc' = "spawn_panicked"
              /\ UNCHANGED <<susp, start_res, bounded, handles,
                             startup_semaphore, reason, waiters, steps>>
              /\ UNCHANGED <<mboxVars, linkVars, abortVars, hookVars, loopVars>>
              /\ UNCHANGED <<ctxVars, peerVars, vetoes>>
         ELSE StartLifecycle("spawn_in_thread", OwnId)

\* spawn_link, after prepare(): actor_ref.link(link_ref).await.
SpawnLinkLink ==
    /\ via = "spawn_link"
    /\ ~links_lock
    /\ links' = links \cup {LinkRef}
    /\ via' = "spawn_link:linked"
    /\ UNCHANGED <<pc, susp, start_res, bounded, handles, startup_semaphore,
                   reason, waiters, steps, links_lock, drained, sent>>
    /\ UNCHANGED <<mboxVars, abortVars, hookVars, loopVars>>
    /\ UNCHANGED <<flavor, strategy, current_actor_id, peerVars, vetoes>>

\* A variant of SpawnLinkSpawn: the actor is spawned first and linked after.
SpawnLinkSpawn_BeforeLink ==
    /\ pc = "prepared"
    /\ via \in {"spawn_link", "spawn_link:linked"}
    /\ StartLifecycle("spawn", OwnId)

\* spawn_link, after the link was awaited: prepared_actor.spawn().
SpawnLinkSpawn ==
    /\ pc = "prepared"
    /\ via = "spawn_link:linked"
    /\ StartLifecycle("spawn", OwnId)

\* The future given to CURRENT_ACTOR_ID.scope completes: the binding ends with
\* the task or thread that carried it.  An inline run leaves the caller's
\* value as it was.
ScopeExit ==
    current_actor_id' = IF strategy = "run" THEN current_actor_id ELSE Unbound

\* on_start completes inside catch_unwind: Ok, or Err / panic folded into Err.
OnStartDone(res) ==
    /\ pc = "on_start"
    /\ start_res' = res
    /\ pc' = "signal_startup"
    /\ UNCHANGED <<susp, bounded, handles, startup_semaphore,
                   reason, waiters, steps>>
    /\ UNCHANGED <<mboxVars, linkVars, abortVars, hookVars, loopVars>>
    /\ UNCHANGED <<ctxVars, peerVars, vetoes>>

\* A variant of SignalStartupFinished: the sentinel jumps the queue.
SignalStartupFinished_Front ==
    /\ pc = "signal_startup"
    /\ HasCapacity
    /\ mailbox' = <<StartupFinished>> \o mailbox
    /\ enq' = Append(enq, StartupFinished)
    /\ pc' = IF start_res = "err" THEN "fail_on_shutdown" ELSE "enter_loop"
    /\ UNCHANGED <<susp, start_res, bounded, handles, startup_semaphore,
                   reason, waiters, steps>>
    /\ UNCHANGED <<linkVars, abortVars, hookVars, loopVars>>
    /\ UNCHANGED <<ctxVars, peerVars, vetoes>>

\* A variant of SignalStartupFinished: the early return on a failed start is
\* missing, so the loop is entered whatever on_start returned.
SignalStartupFinished_NoShortCircuit ==
    /\ pc = "signal_startup"
    /\ HasCapacity
    /\ mailbox' = Append(mailbox, StartupFinished)
    /\ enq' = Append(enq, StartupFinished)
    /\ pc' = "enter_loop"
    /\ UNCHANGED <<susp, start_res, bounded, handles, startup_semaphore,
                   reason, waiters, steps>>
    /\ UNCHANGED <<linkVars, abortVars, hookVars, loopVars>>
    /\ UNCHANGED <<ctxVars, peerVars, vetoes>>

\* A variant of SignalStartupFinished: the permits are added when the sentinel
\* is enqueued.
SignalStartupFinished_ReleasesGate ==
    /\ pc = "signal_startup"
    /\ HasCapacity
    /\ mailbox' = Append(mailbox, StartupFinished)
    /\ enq' = Append(enq, StartupFinished)
    /\ startup_semaphore' = startup_semaphore + MAX_PERMITS
    /\ pc' = IF start_res = "err" THEN "fail_on_shutdown" ELSE "enter_loop"
    /\ UNCHANGED <<susp, start_res, bounded, handles, reason, waiters, steps>>
    /\ UNCHANGED <<linkVars, abortVars, hookVars, loopVars>>
    /\ UNCHANGED <<ctxVars, peerVars, vetoes>>

\* weak_signal_mailbox().signal_startup_finished().await, then the downgrade of
\* the handle, then the branch on start_res.  The send waits for capacity.
SignalStartupFinished ==
    /\ pc = "signal_startup"
    /\ HasCapacity
    /\ mailbox' = Append(mailbox, StartupFinished)
    /\ enq' = Append(enq, StartupFinished)
    /\ pc' = IF start_res = "err" THEN "fail_on_shutdown" ELSE "enter_loop"
    /\ UNCHANGED <<susp, start_res, bounded, handles, startup_semaphore,
                   reason, waiters, steps>>
    /\ UNCHANGED <<linkVars, abortVars, hookVars, loopVars>>
    /\ UNCHANGED <<ctxVars, peerVars, vetoes>>

\* Startup failure: state.on_shutdown(Panicked).await.unwrap_or(Panicked).
FailOnShutdown(r) ==
    /\ pc = "fail_on_shutdown"
    /\ reason' = IF r = NoReason THEN "Panicked" ELSE r
    /\ steps' = <<"finalize">>
    /\ pc' = "fail_state_shutdown"
    /\ shutdown_res' = r
    /\ UNCHANGED <<susp, start_res, bounded, handles, startup_semaphore, waiters,
                   on_start_runs, on_stop_log, results>>
    /\ UNCHANGED <<mboxVars, linkVars, abortVars, loopVars>>
    /\ UNCHANGED <<ctxVars, peerVars, vetoes>>

\* Startup failure: state.shutdown().await.
FailStateShutdown ==
    /\ pc = "fail_state_shutdown"
    /\ steps' = Append(steps, "state_shutdown")
    /\ pc' = "fail_on_stop"
    /\ UNCHANGED <<susp, start_res, bounded, handles, startup_semaphore,
                   reason, waiters>>
    /\ UNCHANGED <<mboxVars, linkVars, abortVars, hookVars, loopVars>>
    /\ UNCHANGED <<ctxVars, peerVars, vetoes>>

\* Startup failure: on_stop(..).await.unwrap(); return (actor, reason).
FailOnStop(ok) ==
    /\ pc = "fail_on_stop"
    /\ on_stop_log' = Append(on_stop_log, reason)
    /\ steps' = Append(steps, "on_stop")
    /\ IF ok
         THEN pc' = "done" /\ results' = Append(results, reason)
         ELSE pc' = "unwound" /\ results' = results
    /\ UNCHANGED <<susp, start_res, bounded, handles, startup_semaphore,
                   reason, waiters, on_start_runs, shutdown_res>>
    /\ UNCHANGED <<mboxVars, linkVars, abortVars, loopVars>>
    /\ ScopeExit
    /\ UNCHANGED <<via, flavor, strategy, peerVars, vetoes>>

\* A variant of Finalize: the peers are notified straight after the reason is
\* final, and state.shutdown() is not reached.
Finalize_NotifyFirst(r) ==
    /\ reason' = r
    /\ steps' = <<"finalize">>
    /\ pc' = "links_lock"
    /\ susp' = FALSE

\* The Running phase ends: the Abortable completed with this reason, and the
\* loop future (with the signal and reason it held) is dropped.
Finalize(r) ==
    /\ reason' = r
    /\ steps' = <<"finalize">>
    /\ pc' = "state_shutdown"
    /\ susp' = FALSE

\* A variant of EnterLoop: a cancellation fired before the loop is forgotten.
EnterLoop_IgnoresAbort ==
    /\ pc = "enter_loop"
    /\ pc' = "recv"
    /\ UNCHANGED <<susp, reason, steps>>
    /\ UNCHANGED <<start_res, bounded, handles, startup_semaphore, waiters>>
    /\ UNCHANGED <<mboxVars, linkVars, abortVars, hookVars, loopVars>>
    /\ UNCHANGED <<ctxVars, peerVars, vetoes>>

\* S::new_from_actor and the first poll of the Abortable, which looks at the
\* abort flag before it polls the loop.
EnterLoop ==
    /\ pc = "enter_loop"
    /\ IF aborted
         THEN Finalize("Killed")
         ELSE /\ pc' = "recv"
              /\ UNCHANGED <<susp, reason, steps>>
    /\ UNCHANGED <<start_res, bounded, handles, startup_semaphore, waiters>>
    /\ UNCHANGED <<mboxVars, linkVars, abortVars, hookVars, loopVars>>
    /\ UNCHANGED <<ctxVars, peerVars, vetoes>>

\* A variant of RecvSignal: the newest signal of the queue is taken.
RecvSignal_TakesNewest ==
    /\ pc = "recv"
    /\ ~AbortPending
    /\ mailbox # <<>>
    /\ LET sig == mailbox[Len(mailbox)] IN
         /\ mailbox' = SubSeq(mailbox, 1, Len(mailbox) - 1)
         /\ dispatched' = Append(dispatched, sig)
         /\ cur' = sig
         /\ invoked' = invoked \cup {CallbackOf(sig)}
         /\ startup_semaphore' =
              IF sig = StartupFinished
                THEN startup_semaphore + MAX_PERMITS
                ELSE startup_semaphore
    /\ pc' = "callback"
    /\ susp' = FALSE
    /\ UNCHANGED <<start_res, bounded, handles, reason, waiters, steps,
                   enq, proposed>>
    /\ UNCHANGED <<linkVars, abortVars, hookVars>>
    /\ UNCHANGED <<ctxVars, peerVars, vetoes>>

\* A variant of RecvSignal: the StartupFinished arm does not add the permits
\* before it invokes the callback.
RecvSignal_NoRelease ==
    /\ pc = "recv"
    /\ ~AbortPending
    /\ mailbox # <<>>
    /\ LET sig == Head(mailbox) IN
         /\ mailbox' = Tail(mailbox)
         /\ dispatched' = Append(dispatched, sig)
         /\ cur' = sig
         /\ invoked' = invoked \cup {CallbackOf(sig)}
    /\ pc' = "callback"
    /\ susp' = FALSE
    /\ UNCHANGED <<start_res, bounded, handles, reason, waiters, steps,
                   enq, proposed, startup_semaphore>>
    /\ UNCHANGED <<linkVars, abortVars, hookVars>>
    /\ UNCHANGED <<ctxVars, peerVars, vetoes>>

\* recv_mailbox_loop: mailbox_rx.recv() yields the head of the queue, and the
\* signal is dispatched; StartupFinished first adds the permits.
RecvSignal ==
    /\ pc = "recv"
    /\ ~AbortPending
    /\ mailbox # <<>>
    /\ LET sig == Head(mailbox) IN
         /\ mailbox' = Tail(mailbox)
         /\ dispatched' = Append(dispatched, sig)
         /\ cur' = sig
         /\ invoked' = invoked \cup {CallbackOf(sig)}
         /\ startup_semaphore' =
              IF sig = StartupFinished
                THEN startup_semaphore + MAX_PERMITS
                ELSE startup_semaphore
    /\ pc' = "callback"
    /\ susp' = FALSE
    /\ UNCHANGED <<start_res, bounded, handles, reason, waiters, steps,
                   enq, proposed>>
    /\ UNCHANGED <<linkVars, abortVars, hookVars>>
    /\ UNCHANGED <<ctxVars, peerVars, vetoes>>

\* A variant of RecvClosed: a closed mailbox ends the receive loop with Normal
\* and handle_stop is not invoked.
RecvClosed_EndsLoop ==
    /\ pc = "recv"
    /\ ~AbortPending
    /\ mailbox = <<>>
    /\ handles = {}
    /\ cur' = Closed
    /\ proposed' = "Normal"
    /\ pc' = "on_shutdown"
    /\ susp' = FALSE
    /\ UNCHANGED <<start_res, bounded, handles, startup_semaphore, reason,
                   waiters, steps, invoked, dispatched>>
    /\ UNCHANGED <<mboxVars, linkVars, abortVars, hookVars>>
    /\ UNCHANGED <<ctxVars, peerVars, vetoes>>

\* recv_mailbox_loop: recv() yields None (queue drained, no strong sender
\* left), handled by the same arm as Signal::Stop.
RecvClosed ==
    /\ pc = "recv"
    /\ ~AbortPending
    /\ mailbox = <<>>
    /\ handles = {}
    /\ cur' = Closed
    /\ invoked' = invoked \cup {CallbackOf(Closed)}
    /\ pc' = "callback"
    /\ susp' = FALSE
    /\ UNCHANGED <<start_res, bounded, handles, startup_semaphore, reason,
                   waiters, steps, proposed, dispatched>>
    /\ UNCHANGED <<mboxVars, linkVars, abortVars, hookVars>>
    /\ UNCHANGED <<ctxVars, peerVars, vetoes>>

\* The task returns Pending: recv() on an empty open mailbox, or a callback or
\* on_shutdown awaiting something.
Suspend ==
    /\ pc \in RunningPcs
    /\ ~susp
    /\ pc = "recv" => (mailbox = <<>> /\ handles # {})
    /\ susp' = TRUE
    /\ UNCHANGED <<pc, start_res, bounded, handles, startup_semaphore,
                   reason, waiters, steps>>
    /\ UNCHANGED <<mboxVars, linkVars, abortVars, hookVars, loopVars>>
    /\ UNCHANGED <<ctxVars, peerVars, vetoes>>

\* The per-signal callback returns: None continues the inner loop, a reason
\* ends recv_mailbox_loop and is offered to on_shutdown.
CallbackReturn(r) ==
    /\ pc = "callback"
    /\ ~AbortPending
    /\ susp' = FALSE
    /\ IF r = NoReason
         THEN pc' = "recv" /\ cur' = NoSignal /\ proposed' = proposed
         ELSE pc' = "on_shutdown" /\ cur' = cur /\ proposed' = r
    /\ UNCHANGED <<start_res, bounded, handles, startup_semaphore, reason,
                   waiters, steps, dispatched, invoked>>
    /\ UNCHANGED <<mboxVars, linkVars, abortVars, hookVars>>
    /\ vetoes' = IF r = NoReason THEN "none" ELSE vetoes
    /\ UNCHANGED <<ctxVars, peerVars>>

\* A variant of OnShutdownReturn: after a veto the sentinel is enqueued again
\* before the receive loop is re-entered.
OnShutdownReturn_SignalsStartupAgain(r) ==
    /\ pc = "on_shutdown"
    /\ ~AbortPending
    /\ IF r = NoReason
         THEN /\ pc' = "recv"
              /\ susp' = FALSE
              /\ cur' = NoSignal
              /\ proposed' = NoReason
              /\ mailbox' = Append(mailbox, StartupFinished)
              /\ enq' = Append(enq, StartupFinished)
              /\ UNCHANGED <<reason, steps>>
         ELSE /\ Finalize(r)
              /\ cur' = NoSignal
              /\ proposed' = NoReason
              /\ UNCHANGED mboxVars
    /\ shutdown_res' = r
    /\ vetoes' = IF r # NoReason THEN "none"
                 ELSE IF vetoes = "none" THEN "once" ELSE "repeatedly"
    /\ UNCHANGED <<start_res, bounded, handles, startup_semaphore,
                   waiters, dispatched, invoked, on_start_runs, on_stop_log, results>>
    /\ UNCHANGED <<linkVars, abortVars>>
    /\ UNCHANGED <<ctxVars, peerVars>>

\* A variant of OnShutdownReturn: a veto is not honoured, the loop ends with
\* Normal when on_shutdown returns None.
OnShutdownReturn_VetoIgnored(r) ==
    /\ pc = "on_shutdown"
    /\ ~AbortPending
    /\ Finalize(IF r = NoReason THEN "Normal" ELSE r)
    /\ cur' = NoSignal
    /\ proposed' = NoReason
    /\ shutdown_res' = r
    /\ vetoes' = "none"
    /\ UNCHANGED <<start_res, bounded, handles, startup_semaphore,
                   waiters, dispatched, invoked, on_start_runs, on_stop_log, results>>
    /\ UNCHANGED <<mboxVars, linkVars, abortVars>>
    /\ UNCHANGED <<ctxVars, peerVars>>

\* abortable_actor_loop: on_shutdown returns a reason (final) or None (the
\* inner loop is entered again).
OnShutdownReturn(r) ==
    /\ pc = "on_shutdown"
    /\ ~AbortPending
    /\ IF r = NoReason
         THEN /\ pc' = "recv"
              /\ susp' = FALSE
              /\ cur' = NoSignal
              /\ proposed' = NoReason
              /\ UNCHANGED <<reason, steps>>
         ELSE /\ Finalize(r)
              /\ cur' = NoSignal
              /\ proposed' = NoReason
    /\ shutdown_res' = r
    /\ UNCHANGED <<start_res, bounded, handles, startup_semaphore,
                   waiters, dispatched, invoked, on_start_runs, on_stop_log, results>>
    /\ UNCHANGED <<mboxVars, linkVars, abortVars>>
    /\ vetoes' = IF r # NoReason THEN "none"
                 ELSE IF vetoes = "none" THEN "once" ELSE "repeatedly"
    /\ UNCHANGED <<ctxVars, peerVars>>

\* The suspended task is polled after abort: Err(Aborted), the loop future is
\* dropped where it stood, .unwrap_or(ActorStopReason::Killed).
AbortObserved ==
    /\ pc \in RunningPcs
    /\ AbortPending
    /\ Finalize("Killed")
    /\ cur' = NoSignal
    /\ proposed' = NoReason
    /\ UNCHANGED <<start_res, bounded, handles, startup_semaphore,
                   waiters, dispatched, invoked>>
    /\ UNCHANGED <<mboxVars, linkVars, abortVars, hookVars>>
    /\ vetoes' = "none"
    /\ UNCHANGED <<ctxVars, peerVars>>

\* A variant of StateShutdown: the teardown first dispatches what is still
\* queued in the mailbox.
StateShutdown_DrainsMailbox ==
    /\ pc = "state_shutdown"
    /\ steps' = Append(steps, "state_shutdown")
    /\ pc' = "links_lock"
    /\ mailbox' = <<>>
    /\ dispatched' = dispatched \o mailbox
    /\ invoked' = invoked \cup {CallbackOf(mailbox[i]) : i \in DOMAIN mailbox}
    /\ UNCHANGED <<susp, start_res, bounded, handles, startup_semaphore,
                   reason, waiters, enq, cur, proposed>>
    /\ UNCHANGED <<linkVars, abortVars, hookVars>>
    /\ UNCHANGED <<ctxVars, peerVars, vetoes>>

\* state.shutdown().await: the raw actor value is recovered.
StateShutdown ==
    /\ pc = "state_shutdown"
    /\ steps' = Append(steps, "state_shutdown")
    /\ pc' = "links_lock"
    /\ UNCHANGED <<susp, start_res, bounded, handles, startup_semaphore,
                   reason, waiters>>
    /\ UNCHANGED <<mboxVars, linkVars, abortVars, hookVars, loopVars>>
    /\ UNCHANGED <<ctxVars, peerVars, vetoes>>

\* A variant of LinksLock: the map is drained without holding its lock.
LinksLock_NoLock ==
    /\ pc = "links_lock"
    /\ links_lock' = FALSE
    /\ drained' = links
    /\ steps' = Append(steps, "notify")
    /\ pc' = "notify"
    /\ UNCHANGED <<susp, start_res, bounded, handles, startup_semaphore,
                   reason, waiters, links, sent>>
    /\ UNCHANGED <<mboxVars, abortVars, hookVars, loopVars>>
    /\ UNCHANGED <<ctxVars, peerVars, vetoes>>

\* links.lock().await and links.drain().
LinksLock ==
    /\ pc = "links_lock"
    /\ ~links_lock
    /\ links_lock' = TRUE
    /\ drained' = links
    /\ steps' = Append(steps, "notify")
    /\ pc' = "notify"
    /\ UNCHANGED <<susp, start_res, bounded, handles, startup_semaphore,
                   reason, waiters, links, sent>>
    /\ UNCHANGED <<mboxVars, abortVars, hookVars, loopVars>>
    /\ UNCHANGED <<ctxVars, peerVars, vetoes>>

\* One turn of the drain loop: the entry leaves the map and its peer is sent
\* LinkDied with this actor's id and reason; the send's result is ignored.
\* The send is awaited with the lock held, and a peer whose bounded mailbox is
\* full keeps it waiting.  (The drain's iteration order is any order: the turn
\* is taken for whichever entry's send can complete.)
NotifyOne(q) ==
    /\ pc = "notify"
    /\ q \in links
    /\ ~peerFull[q]
    /\ links' = links \ {q}
    /\ sent' = [sent EXCEPT ![q] = Append(@, [id |-> ActorId, reason |-> reason])]
    /\ UNCHANGED <<pc, susp, start_res, bounded, handles, startup_semaphore,
                   reason, waiters, steps, links_lock, drained>>
    /\ UNCHANGED <<mboxVars, abortVars, hookVars, loopVars>>
    /\ UNCHANGED <<ctxVars, peerVars, vetoes>>

\* The drain loop ends and the lock guard is dropped.
NotifyDone ==
    /\ pc = "notify"
    /\ links = {}
    /\ links_lock' = FALSE
    /\ pc' = "on_stop"
    /\ UNCHANGED <<susp, start_res, bounded, handles, startup_semaphore,
                   reason, waiters, steps, links, drained, sent>>
    /\ UNCHANGED <<mboxVars, abortVars, hookVars, loopVars>>
    /\ UNCHANGED <<ctxVars, peerVars, vetoes>>

\* on_stop(..).await; log; on_stop_res.unwrap(); return (actor, reason).
OnStop(ok) ==
    /\ pc = "on_stop"
    /\ on_stop_log' = Append(on_stop_log, reason)
    /\ steps' = Append(steps, "on_stop")
    /\ IF ok
         THEN pc' = "done" /\ results' = Append(results, reason)
         ELSE pc' = "unwound" /\ results' = results
    /\ UNCHANGED <<susp, start_res, bounded, handles, startup_semaphore,
                   reason, waiters, on_start_runs, shutdown_res>>
    /\ UNCHANGED <<mboxVars, linkVars, abortVars, loopVars>>
    /\ ScopeExit
    /\ UNCHANGED <<via, flavor, strategy, peerVars, vetoes>>

(* ---------------- specification ---------------- *)

\* The steps of run_actor_lifecycle.
Lifecycle ==
    \/ Run
    \/ \E res \in {"ok", "err"} : OnStartDone(res)
    \/ SignalStartupFinished
    \/ \E r \in OptReason : FailOnShutdown(r)
    \/ FailStateShutdown
    \/ \E ok \in BOOLEAN : FailOnStop(ok)
    \/ EnterLoop
    \/ RecvSignal
    \/ RecvClosed
    \/ Suspend
    \/ \E r \in OptReason : CallbackReturn(r)
    \/ \E r \in OptReason : OnShutdownReturn(r)
    \/ AbortObserved
    \/ StateShutdown
    \/ LinksLock
    \/ \E q \in Peers : NotifyOne(q)
    \/ NotifyDone
    \/ \E ok \in BOOLEAN : OnStop(ok)

\* The lifecycle with the users of the mailbox, of the abort handle and of the
\* startup semaphore.
Next ==
    \/ Lifecycle
    \/ \E w \in Waiters : WaitStartup(w)
    \/ \E w \in Waiters : WaitReturn(w)
    \/ \E p \in Producers : \E k \in KindsOf(p) : Send(p, k)
    \/ \E p \in Producers : DropHandle(p)
    \/ Abort

Spec == Init /\ [][Next]_vars

\* The lifecycle with the callers of link / unlink.
NextLinks ==
    \/ Lifecycle
    \/ \E q \in Peers : Link(q)
    \/ \E q \in Peers : Unlink(q)
    \/ \E p \in Producers : DropHandle(p)
    \/ Abort

SpecLinks == Init /\ [][NextLinks]_vars

\* The lifecycle with linked peers that have bounded mailboxes and call link /
\* unlink on the actor from their callbacks.
NextPeers ==
    \/ Lifecycle
    \/ \E q \in Peers : PeerMailboxFills(q)
    \/ \E q \in Peers : PeerReceives(q)
    \/ \E q \in Peers : PeerCallsLink(q)
    \/ \E q \in Peers : PeerLinkReturns(q)
    \/ \E p \in Producers : DropHandle(p)
    \/ Abort

SpecPeers == Init /\ [][NextPeers]_vars

\* The lifecycle under every way of starting it: run, spawn, spawn_in_thread
\* by the user, and spawn_link.
NextStrategies ==
    \/ Lifecycle
    \/ Spawn
    \/ SpawnInThread
    \/ SpawnLinkLink
    \/ SpawnLinkSpawn
    \/ \E p \in Producers : DropHandle(p)
    \/ Abort

SpecStrategies == InitStrategies /\ [][NextStrategies]_vars

(* ---------------- helpers of the properties ---------------- *)

Range(seq) == {seq[i] : i \in DOMAIN seq}

IsPrefix(a, b) == Len(a) <= Len(b) /\ \A i \in DOMAIN a : a[i] = b[i]

\* The positions at which x occurs in seq.
Positions(seq, x) == {i \in DOMAIN seq : seq[i] = x}

(* ---------------- C1 ---------------- *)

\* C1 (as claimed): whatever the hooks do, the lifecycle never unwinds past
\* run, and when it has ended it has yielded exactly one (actor, reason) pair
\* whose reason is one of the four kinds.
C1_ExactlyOneReason ==
    /\ pc # "unwound"
    /\ Len(results) <= 1
    /\ pc \in EndPcs => (Len(results) = 1 /\ results[1] \in Reasons)

(* ---------------- C2 ---------------- *)

LinkDiedOf(r) == [id |-> ActorId, reason |-> r]

\* C3: on steady-state termination every peer in the Links map when the drain
\* starts is sent exactly one LinkDied with this actor's id and final reason,
\* nobody is sent two, and the map is empty when the notification step ends,
\* whatever link / unlink calls run concurrently.
C3_LinkDiedExactlyOnce ==
    /\ [](/\ \A q \in Peers : Len(sent[q]) <= 1
          /\ \A q \in Peers :
               sent[q] # <<>> => (q \in drained /\ sent[q][1] = LinkDiedOf(reason))
          /\ pc = "notify" =>
               /\ links \subseteq drained
               /\ \A q \in drained : (q \in links) <=> (sent[q] = <<>>)
          /\ (pc \in {"on_stop"} \cup EndPcs /\ start_res = "ok") =>
               \A q \in drained : Len(sent[q]) = 1)
    /\ [][(pc = "notify" /\ pc' # "notify") => links' = {}]_vars

\* C3 witness: the actor was killed while linked to one peer (the other had
\* unlinked), the drain is over and that peer holds its one LinkDied.
C3_Witness ==
    /\ pc = "on_stop"
    /\ reason = "Killed"
    /\ Cardinality(drained) = 1
    /\ \A q \in drained : sent[q] = <<LinkDiedOf("Killed")>>
    /\ links = {}

(* ---------------- C4 ---------------- *)

\* C4: cancellation fired while the Running phase is suspended (on the mailbox,
\* in a callback or in on_shutdown) ends the phase with Killed: nothing else
\* runs in the loop, and on_stop is invoked exactly once, with Killed.
C4_KilledWhenAbortedSuspended ==
    abortPhase = "susp" =>
       /\ pc \in RunningPcs => susp
       /\ pc \notin RunningPcs =>
            /\ reason = "Killed"
            /\ Len(on_stop_log) <= 1
            /\ pc \in EndPcs => on_stop_log = <<"Killed">>

\* C4 witness: aborted while suspended with a signal still queued; the
\* lifecycle returned Killed after one on_stop(Killed).
C4_Witness ==
    /\ abortPhase = "susp"
    /\ pc = "done"
    /\ results = <<"Killed">>
    /\ on_stop_log = <<"Killed">>
    /\ mailbox # <<>>

(* ---------------- C5 ---------------- *)

\* C5 (as claimed): cancellation fired before the Running phase has no effect:
\* a started actor that ends with Killed got that reason from its own hooks,
\* not from the earlier cancellation.
C5_EarlyAbortHasNoEffect ==
    (abortPhase = "pre" /\ start_res = "ok" /\ reason = "Killed") =>
       invoked # {}

\* C5 (amended): cancellation fired before the Running phase does not interrupt
\* startup (on_start completes, StartupFinished is enqueued), but it stays
\* pending: a started actor ends the Running phase with Killed on entering it,
\* before any signal is dispatched and without releasing the startup
\* semaphore, and on_stop runs once, with Killed.
C5_EarlyAbortKillsOnEntry ==
    (abortPhase = "pre" /\ pc \notin PrePcs) =>
       /\ on_start_runs = 1
       /\ start_res # "none"
       /\ StartupFinished \in Range(enq)
       /\ start_res = "ok" =>
            /\ reason = "Killed"
            /\ dispatched = <<>>
            /\ invoked = {}
            /\ startup_semaphore = 0
            /\ Len(on_stop_log) <= 1
            /\ pc \in EndPcs => on_stop_log = <<"Killed">>

\* C5 witness: aborted during startup with a message already queued; on_start
\* succeeded and run returned Killed with the message never dispatched.
C5_Witness ==
    /\ abortPhase = "pre"
    /\ start_res = "ok"
    /\ pc = "done"
    /\ results = <<"Killed">>
    /\ \E i \in DOMAIN mailbox : mailbox[i].type = "Message"

(* ---------------- C6 ---------------- *)

\* C6: when on_start fails the loop is never entered and no per-signal
\* callback runs; the final reason is Panicked unless on_shutdown returned
\* another one; on_stop runs once, with the final reason; no peer is sent
\* LinkDied.
C6_StartupFailureShortCircuits ==
    start_res = "err" =>
       /\ pc \in {"signal_startup"} \cup FailPcs \cup EndPcs
       /\ invoked = {}
       /\ dispatched = <<>>
       /\ \A q \in Peers : sent[q] = <<>>
       /\ drained = {}
       /\ pc \in {"fail_state_shutdown", "fail_on_stop"} \cup EndPcs =>
            reason = (IF shutdown_res = NoReason THEN "Panicked" ELSE shutdown_res)
       /\ Len(on_stop_log) <= 1
       /\ pc \in EndPcs => on_stop_log = <<reason>>
       /\ pc = "done" => results = <<reason>>

\* C6 witness: on_start failed with a message queued and the peers linked,
\* on_shutdown returned none, and run returned Panicked after one on_stop.
C6_Witness ==
    /\ start_res = "err"
    /\ pc = "done"
    /\ shutdown_res = NoReason
    /\ results = <<"Panicked">>
    /\ on_stop_log = <<"Panicked">>
    /\ links = Peers
    /\ \E i \in DOMAIN mailbox : mailbox[i].type = "Message"

(* ---------------- C7 ---------------- *)

\* C7: the startup semaphore starts with no permit; the permits are added at
\* most once, by recv_mailbox_loop when it dequeues StartupFinished and not
\* when the sentinel is enqueued; they are never taken back; and whenever the
\* semaphore is released on_start has completed.
C7_GateReleasedOnDispatch ==
    /\ [](/\ startup_semaphore \in {0, MAX_PERMITS}
          /\ pc = "prepared" => startup_semaphore = 0
          /\ startup_semaphore > 0 =>
               (start_res # "none" /\ StartupFinished \in Range(dispatched))
          /\ StartupFinished \in Range(mailbox) => startup_semaphore = 0)
    /\ [][startup_semaphore' # startup_semaphore =>
            /\ startup_semaphore = 0
            /\ startup_semaphore' = MAX_PERMITS
            /\ pc = "recv"
            /\ mailbox # <<>>
            /\ Head(mailbox) = StartupFinished
            /\ dispatched' = Append(dispatched, StartupFinished)]_vars

\* C7 witness: the semaphore is released, the sentinel having been dispatched
\* behind a signal that was queued ahead of it.
C7_Witness ==
    /\ startup_semaphore = MAX_PERMITS
    /\ Len(dispatched) >= 2
    /\ dispatched[2] = StartupFinished
    /\ \E w \in Waiters : waiters[w] = "proceeded"

(* ---------------- C8 ---------------- *)

\* C8 (as claimed): once on_start has completed every waiter on the startup
\* semaphore proceeds.  The lifecycle alone adds permits, so when it has
\* returned, a caller that is still waiting must find the semaphore released.
C8_WaitersProceed ==
    \A w \in Waiters :
       (pc = "done" /\ waiters[w] = "waiting") => startup_semaphore > 0

(* ---------------- C9 ---------------- *)

\* The loop is ending through handle_stop (an explicit Stop or the closed
\* mailbox) of an actor that started, with cancellation not fired.
EndsThroughHandleStop ==
    /\ pc = "on_shutdown"
    /\ pc' = "state_shutdown"
    /\ start_res = "ok"
    /\ cur.type \in {"Stop", "Closed"}
    /\ ~aborted

\* Every signal enqueued ahead of the Stop in hand (or before the mailbox
\* closed) was dispatched exactly once, in arrival order.
QueuedAheadDispatched ==
    /\ IsPrefix(dispatched, enq)
    /\ cur.type = "Stop" => dispatched[Len(dispatched)] = cur
    /\ cur.type = "Closed" => dispatched = enq
    /\ \A i \in DOMAIN enq :
         (\A j \in DOMAIN enq : enq[j] = cur => i < j) =>
            Cardinality(Positions(dispatched, enq[i])) = 1

\* C9 (as claimed): messages queued before run are not lost, and the actor
\* completes with the reason handle_stop returned.
C9_QueuedThenStopReason ==
    [][EndsThroughHandleStop => (QueuedAheadDispatched /\ reason' = proposed)]_vars

\* C9 (amended): messages queued before run are not lost: when the loop ends
\* through handle_stop, every signal enqueued ahead of that Stop (or before
\* the mailbox closed) has been dispatched exactly once, in arrival order; the
\* actor completes with the reason on_shutdown returns for handle_stop's.
C9_QueuedAheadOfStopDispatched ==
    [][EndsThroughHandleStop =>
         (QueuedAheadDispatched /\ reason' = shutdown_res' /\ reason' \in Reasons)]_vars

\* C9 witness: a message queued before run was dispatched, then the sentinel,
\* then the Stop, whose reason Normal is being offered to on_shutdown.
C9_Witness ==
    /\ pc = "on_shutdown"
    /\ start_res = "ok"
    /\ ~aborted
    /\ cur.type = "Stop"
    /\ proposed = "Normal"
    /\ Len(dispatched) = 3
    /\ dispatched[1].type = "Message"
    /\ dispatched[2] = StartupFinished
    /\ dispatched[3] = cur

(* ---------------- C10 ---------------- *)

\* C10 (as claimed): steady-state shutdown runs finalize, notify links,
\* state.shutdown, on_stop, in that order.
C10_NotifyBeforeTeardown ==
    (start_res = "ok" /\ pc \in EndPcs) =>
       steps = <<"finalize", "notify", "state_shutdown", "on_stop">>

ShutdownOrder == <<"finalize", "state_shutdown", "notify", "on_stop">>

\* C10 (amended): steady-state shutdown runs finalize, state.shutdown, notify
\* links, on_stop, in that order, each step once and each after the previous
\* one is over.
C10_TeardownBeforeNotify ==
    start_res = "ok" =>
       /\ IsPrefix(steps, ShutdownOrder)
       /\ pc \in PrePcs \cup RunningPcs => steps = <<>>
       /\ pc = "state_shutdown" => steps = SubSeq(ShutdownOrder, 1, 1)
       /\ pc = "links_lock" => steps = SubSeq(ShutdownOrder, 1, 2)
       /\ pc \in {"notify", "on_stop"} => steps = SubSeq(ShutdownOrder, 1, 3)
       /\ pc \in EndPcs => steps = ShutdownOrder
       /\ pc \in {"on_stop"} \cup EndPcs =>
            (~links_lock /\ \A q \in drained : Len(sent[q]) = 1)
       /\ pc \in PostPcs \cup EndPcs => reason \in Reasons

\* C10 witness: a started actor with linked peers has returned after the four
\* steps.
C10_Witness ==
    /\ start_res = "ok"
    /\ pc = "done"
    /\ steps = ShutdownOrder
    /\ drained = Peers
    /\ reason = "Normal"

(* ---------------- C11 .. C13 ---------------- *)

\* The positions at which code of run_actor_lifecycle executes.
InLifecycle == pc \in (PrePcs \ {"prepared"}) \cup RunningPcs \cup FailPcs \cup PostPcs

\* C11: under each of the three execution strategies, CURRENT_ACTOR_ID is
\* bound to the actor's own id for the whole duration of the lifecycle, and
\* is not bound to that id before the lifecycle starts or after it returned.
C11_AmbientIdIsOwnId ==
    /\ InLifecycle => current_actor_id = OwnId
    /\ pc \in {"prepared", "spawn_panicked"} \cup EndPcs => current_actor_id # OwnId

\* C12: an actor started by spawn_link never executes, and never terminates,
\* without the link to link_ref having been made: from the first step of its
\* lifecycle link_ref is in its Links map until the shutdown drains the map,
\* and a started actor that reached on_stop has notified link_ref once.
C12_LinkedBeforeLifecycle ==
    via \in {"spawn_link", "spawn_link:linked"} /\ pc # "prepared" =>
        /\ via = "spawn_link:linked"
        /\ strategy = "spawn"
        /\ LinkRef \in links \/ LinkRef \in drained
        /\ (pc \in {"on_stop"} \cup EndPcs /\ start_res = "ok") =>
               sent[LinkRef] = <<LinkDiedOf(reason)>>

C12_Witness ==
    /\ via = "spawn_link:linked"
    /\ pc = "done"
    /\ start_res = "ok"
    /\ sent[LinkRef] = <<LinkDiedOf(reason)>>

\* C13: spawn_in_thread called in a CurrentThread runtime panics in the
\* caller at once: no lifecycle is started under that strategy in such a
\* runtime (neither in a thread nor inline nor as a task), and after the
\* panic no hook has run and nothing was signalled or returned.
C13_CurrentThreadPanics ==
    /\ strategy = "spawn_in_thread" => flavor = "MultiThread"
    /\ pc = "spawn_panicked" =>
          /\ flavor = "CurrentThread"
          /\ strategy = "none"
          /\ on_start_runs = 0
          /\ start_res = "none"
          /\ invoked = {}
          /\ enq = <<>>
          /\ on_stop_log = <<>>
          /\ results = <<>>
          /\ startup_semaphore = 0

C13_Witness ==
    /\ pc = "spawn_panicked"
    /\ flavor = "CurrentThread"
    /\ aborted

(* ---------------- C14 ---------------- *)

\* The handle_startup_finished callback is executing: the sentinel was
\* dequeued and its callback has not returned.
InStartupFinishedCallback == pc = "callback" /\ cur = StartupFinished

\* C14: the startup semaphore is released only after StartupFinished has been
\* enqueued and fully processed, i.e. after handle_startup_finished has
\* completed: it holds no permit while that callback is executing.
C14_ReleasedAfterCallback ==
    InStartupFinishedCallback => startup_semaphore = 0

\* C14 (amended): the startup semaphore is released only after StartupFinished
\* has been enqueued and dequeued, at the start of its dispatch: the permits
\* are there before handle_startup_finished begins, and so all the time that
\* callback is executing.
C14_ReleasedBeforeCallback ==
    /\ startup_semaphore > 0 =>
          /\ StartupFinished \in Range(enq)
          /\ StartupFinished \notin Range(mailbox)
          /\ "handle_startup_finished" \in invoked
    /\ InStartupFinishedCallback => startup_semaphore = MAX_PERMITS
    /\ "handle_startup_finished" \in invoked => startup_semaphore = MAX_PERMITS

\* C14 witness: a waiter has proceeded while handle_startup_finished is still
\* suspended.
C14_Witness ==
    /\ InStartupFinishedCallback
    /\ susp
    /\ startup_semaphore = MAX_PERMITS
    /\ \E w \in Waiters : waiters[w] = "proceeded"

(* ---------------- C15 ---------------- *)

\* C15: in the Running phase a reason returned by a per-signal callback never
\* ends the loop by itself but is offered to on_shutdown; a reason returned by
\* on_shutdown is final and ends the loop; when on_shutdown returns none the
\* receive loop is entered again with the mailbox, the handles and the Links
\* map as they were, nothing is sent to a peer, on_stop is not invoked and no
\* reason is set; and after any number of vetoes in a row the actor is still
\* in the Running phase, untouched by shutdown, dispatching in arrival order.
C15_VetoKeepsRunning ==
    /\ [](/\ pc = "on_shutdown" => (proposed \in Reasons /\ cur # NoSignal)
          /\ vetoes # "none" =>
               /\ pc \in RunningPcs
               /\ reason = NoReason
               /\ steps = <<>>
               /\ on_stop_log = <<>>
               /\ results = <<>>
               /\ \A q \in Peers : sent[q] = <<>>
               /\ drained = {}
          /\ IsPrefix(dispatched, enq))
    /\ [][/\ (pc = "callback" /\ pc' # "callback" /\ ~AbortPending) =>
               \/ pc' = "recv" /\ proposed' = NoReason
               \/ pc' = "on_shutdown" /\ proposed' \in Reasons /\ cur' = cur
          /\ (pc = "on_shutdown" /\ pc' # "on_shutdown" /\ ~AbortPending) =>
               \/ /\ shutdown_res' \in Reasons
                  /\ reason' = shutdown_res'
                  /\ pc' = "state_shutdown"
               \/ /\ shutdown_res' = NoReason
                  /\ pc' = "recv"
                  /\ vetoes' \in {"once", "repeatedly"}
                  /\ (vetoes # "none" => vetoes' = "repeatedly")
                  /\ UNCHANGED <<mailbox, handles, links, sent, reason,
                                 on_stop_log, dispatched, start_res>>]_vars

\* C15 witness: two stop proposals in a row were vetoed, and a message queued
\* behind them is being dispatched.
C15_Witness ==
    /\ pc = "callback"
    /\ vetoes = "repeatedly"
    /\ cur.type = "Message"
    /\ Len(dispatched) = 3
    /\ on_stop_log = <<>>

(* ---------------- C16 ---------------- *)

\* How many times sig occurs in the sequence s.
Count(s, sig) == Cardinality(Positions(s, sig))

\* Before the lifecycle has passed signal_startup_finished().await.
BeforeSentinel == pc \in {"prepared", "spawn_panicked", "on_start", "signal_startup"}

\* C16: the lifecycle enqueues exactly one StartupFinished per actor: none
\* before on_start has completed, one from the step that follows on_start
\* (whether on_start succeeded or failed), and never a second one, vetoes and
\* re-entries of the receive loop included; so the sentinel is dispatched at
\* most once and the semaphore is released at most once.
C16_OneStartupFinished ==
    /\ Count(enq, StartupFinished) = (IF BeforeSentinel THEN 0 ELSE 1)
    /\ start_res = "none" => Count(enq, StartupFinished) = 0
    /\ Count(dispatched, StartupFinished) + Count(mailbox, StartupFinished) <= 1
    /\ startup_semaphore =
         (IF Count(dispatched, StartupFinished) = 1 THEN MAX_PERMITS ELSE 0)

\* C16 witness: after two vetoes in a row the receive loop runs again and the
\* one sentinel, dispatched long ago, is still the only one ever enqueued.
C16_Witness ==
    /\ pc = "recv"
    /\ vetoes = "repeatedly"
    /\ Count(enq, StartupFinished) = 1
    /\ Count(dispatched, StartupFinished) = 1
    /\ startup_semaphore = MAX_PERMITS

(* ---------------- C17 ---------------- *)

\* The loop ends through on_shutdown's answer to the reason handle_stop
\* returned for the closed mailbox.
ClosedStopFinalized ==
    /\ pc = "on_shutdown"
    /\ cur = Closed
    /\ ~AbortPending
    /\ pc' = "state_shutdown"

\* The closed indication is handled as Signal::Stop is: only a drained mailbox
\* without strong senders yields it, never a suspension; it invokes
\* handle_stop; and a reason handle_stop returns goes to on_shutdown.
ClosedHandledAsStop ==
    /\ [](/\ CallbackOf(Closed) = CallbackOf([type |-> "Stop", from |-> "client", n |-> 1])
          /\ (pc = "recv" /\ mailbox = <<>> /\ handles = {} /\ ~AbortPending) =>
                ENABLED RecvClosed
          /\ cur = Closed => (mailbox = <<>> /\ handles = {} /\ dispatched = enq))
    /\ [][/\ (cur' = Closed /\ cur # Closed) =>
               /\ pc = "recv"
               /\ pc' = "callback"
               /\ "handle_stop" \in invoked'
          /\ (pc = "callback" /\ cur = Closed /\ pc' # "callback" /\ ~AbortPending) =>
               \/ pc' = "recv" /\ proposed' = NoReason
               \/ pc' = "on_shutdown" /\ proposed' \in Reasons /\ cur' = Closed]_vars

C18_SentinelEnqueueNeverBlocks ==
    pc = "signal_startup" => ENABLED Lifecycle

(* ---------------- C19 ---------------- *)

\* C19: the notification step, which holds the Links lock while it awaits
\* each LinkDied send, never comes to a standstill: as long as it is not over,
\* either the lifecycle can take a step or a peer it still has to notify can
\* make room in its mailbox.  (Where neither is possible nothing ever changes
\* that: the peers left in the map wait for the lock, the lock waits for their
\* mailboxes.)
C19_NotificationNeverDeadlocks ==
    pc = "notify" =>
       \/ ENABLED Lifecycle
       \/ \E q \in links : ENABLED PeerReceives(q)

(* ---------------- C20 ---------------- *)

\* The Running phase of a started actor has ended with a final reason.
RunningEnded == start_res = "ok" /\ pc \in PostPcs \cup EndPcs

\* C20: once the Running phase has ended with a final reason, no per-signal
\* callback is invoked again: a callback (or on_shutdown) suspended when the
\* cancellation is observed is dropped with the loop and the phase ends with
\* Killed; from then on nothing is dequeued or dispatched, no signal is in
\* hand, the reason stays, the loop is not entered again, and the only hooks
\* that follow are state.shutdown and one on_stop with that reason.
C20_NoCallbackAfterRunning ==
    /\ [](RunningEnded =>
            /\ reason \in Reasons
            /\ cur = NoSignal
            /\ proposed = NoReason
            /\ ~susp
            /\ on_stop_log = (IF pc \in EndPcs THEN <<reason>> ELSE <<>>)
            /\ IsPrefix(steps, ShutdownOrder))
    /\ [][/\ (pc \in RunningPcs /\ AbortPending /\ pc' # pc) =>
               /\ pc' = "state_shutdown"
               /\ reason' = "Killed"
               /\ cur' = NoSignal
               /\ UNCHANGED <<invoked, dispatched, mailbox>>
          /\ RunningEnded =>
               /\ pc' \in PostPcs \cup EndPcs
               /\ UNCHANGED <<invoked, dispatched, mailbox, cur, reason,
                              startup_semaphore, on_start_runs>>]_vars

\* C20 witness: the actor was killed while suspended in the Running phase
\* after a message callback had been invoked; it has returned after one
\* on_stop(Killed), and a signal is still queued, never dispatched.
C20_Witness ==
    /\ pc = "done"
    /\ abortPhase = "susp"
    /\ reason = "Killed"
    /\ on_stop_log = <<"Killed">>
    /\ "handle_message" \in invoked
    /\ mailbox # <<>>
    /\ Len(dispatched) < Len(enq)

====
